---- MODULE Spec2Model ----
(***************************************************************************)
(* A model of the two programs of the repository:                          *)
(*   - the function shipper handler (src/src/function_shipper_handler.c):  *)
(*     the function registry, the call handle and receive/get_input/       *)
(*     complete;                                                            *)
(*   - the wireup requester and responder (src/replies.c).                  *)
(* Pointers are modelled by what they own: NULL, or a token for the live   *)
(* object.  Every counter named "ghost" is bookkeeping of the model that   *)
(* the code does not hold: it counts what the code did to a resource.      *)
(***************************************************************************)
EXTENDS Integers, Sequences, FiniteSets, TLC

\* ------------------------------------------------------------------ bounds
MaxHandles == 2      \* calls received in one behaviour
MaxCalls == 2        \* get_input calls counted per handle (a further call repeats the last)
MaxCompletes == 2    \* complete calls per handle
SizeBits == 8        \* width of size_t / na_size_t in the model
MaxArrivals == 3     \* receives the transport completes on a pool in one behaviour
MaxAddrLen == 3      \* bytes of the longest serialized address

SizeMax == 2 ^ SizeBits - 1

NULL == "NULL"
S_SUCCESS == "S_SUCCESS"
S_FAIL == "S_FAIL"

\* ------------------------------------------------- collaborators (not in src/)
\* iofsl_compat_get_size_id(): the bytes of the legacy id prefix of a request.
SizeIdPrefix == 2
\* iofsl_compat_get_size_status(): the bytes of the legacy status prefix of a response.
SizeStatusPrefix == 2
\* na_get_unexpected_size(): the transport's bound on an unexpected message.
UnexpectedSize == 8

Names == {"foo", "baz"}
OpIds == {1, 2}
NoId == 0

\* fs_proc_string_hash: a 32-bit hash of the name; the two names of the model
\* collide, and no name of the model hashes to 2.
fs_proc_string_hash(name) ==
    CASE name = "foo" -> 1
      [] name = "baz" -> 1

\* The triple a caller registers under a name.
ProcInfo(name) ==
    [fs_routine |-> <<"exec", name>>,
     dec_routine |-> <<"dec", name>>,
     enc_routine |-> <<"enc", name>>]

\* A NULL fs_proc_info_t pointer.
NoProcInfo == [fs_routine |-> <<>>, dec_routine |-> <<>>, enc_routine |-> <<>>]

\* func_map_new: an empty map.
func_map_new == <<>>

\* func_map_lookup: the entry stored under the key, or NULL.
func_map_lookup(map, id) == IF id \in DOMAIN map THEN map[id] ELSE NoProcInfo

\* func_map_insert: stores the value under the key, replacing what was there.
func_map_insert(map, id, info) ==
    [k \in DOMAIN map \cup {id} |-> IF k = id THEN info ELSE map[k]]

\* fs_proc_uint32_t, encoding: four bytes, most significant first.
U32Bytes(v) ==
    <<(v \div 16777216) % 256, (v \div 65536) % 256, (v \div 256) % 256, v % 256>>

\* fs_proc_uint32_t, decoding.
U32Value(b) == ((b[1] * 256 + b[2]) * 256 + b[3]) * 256 + b[4]

\* The request a caller puts on the wire: the legacy id prefix, the 4-byte
\* operation id, the body.
RequestBytes(id, body) == [i \in 1..SizeIdPrefix |-> 7] \o U32Bytes(id) \o body

\* The senders of the model: the address a request arrives from and the tag it uses.
Senders == {[addr |-> "a1", tag |-> 5], [addr |-> "a2", tag |-> 6]}

\* The sizes an encoder may need for a response.
OutSizes == {1, UnexpectedSize}

\* Those of them that fit one buffer after the legacy status prefix.
FitSizes == {s \in OutSizes : s + SizeStatusPrefix <= UnexpectedSize}

\* The request bodies of the model.
Bodies == {<<4>>}

\* What a read of bytes that were never received may give as an operation id.
JunkIds == OpIds

\* The lengths a request may be delivered with: cut inside the legacy prefix,
\* or whole.
DeliveredLens(full) == {SizeIdPrefix - 1, Len(full)}

Min(a, b) == IF a < b THEN a ELSE b

VARIABLES
    handler_network_class,  \* static na_network_class_t *handler_network_class
    handler_func_map,       \* static func_map_t *handler_func_map: id -> proc info
    map_live,               \* handler_func_map points to a map of func_map_new, not freed
    lifeRet,                \* ghost: the last init or finalize call and what it did
    handles,                \* the fs_priv_handle_t objects allocated so far
    ghost,                  \* per handle: what was done to it and to what it owns
    firstReg,               \* ghost: id -> the triple registered first under it
    dupUnreported,          \* ghost: a registration under a present id returned no error
    crashed                 \* the process ended on an invalid access

fsVars == <<handler_network_class, handler_func_map, map_live, lifeRet, handles,
            ghost, firstReg, dupUnreported, crashed>>

\* ---------------------------------------------------- function shipper handler

Initialized == handler_network_class # NULL

IsHandle(h) == h \in 1..Len(handles)

\* The handle was passed to an executor.
Delivered(h) == IsHandle(h) /\ ghost[h].execs # <<>>

\* free(priv_handle) has run on the handle.
Freed(h) == IsHandle(h) /\ ghost[h].hFrees > 0

\* What the model records of a call of fs_handler_init or fs_handler_finalize:
\* the function, its return value, whether the handler was initialized when
\* it was called, and whether it left the network class and the function map
\* as they were.
NoLifeRet == [call |-> "none", ret |-> S_SUCCESS, was |-> FALSE, kept |-> TRUE]

LifeRet(call, ret, kept) ==
    [call |-> call, ret |-> ret, was |-> Initialized, kept |-> kept]

\* The call left the network class and the function map as they were.
LifeKept ==
    /\ handler_network_class' = handler_network_class
    /\ handler_func_map' = handler_func_map
    /\ map_live' = map_live

\* fs_handler_init without its test of the network class.
AlreadyInitializedUnchecked == FALSE

\* if (handler_network_class) of fs_handler_init
AlreadyInitialized == handler_network_class # NULL

\* int fs_handler_init(na_network_class_t *network_class)
fs_handler_init(network_class) ==
    /\ ~crashed
    /\ IF AlreadyInitialized
       THEN /\ UNCHANGED <<handler_network_class, handler_func_map, map_live,
                           firstReg, dupUnreported>>
            /\ lifeRet' = LifeRet("init", S_FAIL, LifeKept)
       ELSE /\ handler_network_class' = network_class
            /\ handler_func_map' = func_map_new
            /\ map_live' = TRUE
            /\ firstReg' = <<>>
            /\ dupUnreported' = FALSE
            /\ lifeRet' = LifeRet("init", S_SUCCESS, LifeKept)
    /\ UNCHANGED <<handles, ghost, crashed>>

\* int fs_handler_finalize(void).  The caller finalizes only when no call it
\* was handed is still open.
fs_handler_finalize ==
    /\ ~crashed
    /\ \A h \in 1..Len(handles) : Delivered(h) => Freed(h)
    /\ IF handler_network_class = NULL
       THEN /\ UNCHANGED <<handler_network_class, handler_func_map, map_live,
                           firstReg, dupUnreported>>
            /\ lifeRet' = LifeRet("finalize", S_FAIL, LifeKept)
       ELSE /\ handler_func_map' = <<>>
            /\ map_live' = FALSE
            /\ firstReg' = <<>>
            /\ dupUnreported' = FALSE
            /\ handler_network_class' = NULL
            /\ lifeRet' = LifeRet("finalize", S_SUCCESS, LifeKept)
    /\ UNCHANGED <<handles, ghost, crashed>>

\* void fs_handler_register(func_name, fs_routine, dec_routine, enc_routine)
fs_handler_register(func_name) ==
    /\ ~crashed
    /\ Initialized
    /\ LET id == fs_proc_string_hash(func_name)
           proc_info == ProcInfo(func_name)
       IN /\ handler_func_map' = func_map_insert(handler_func_map, id, proc_info)
          /\ firstReg' = IF id \in DOMAIN firstReg THEN firstReg
                         ELSE func_map_insert(firstReg, id, proc_info)
          \* the function is void: nothing tells the caller the id was present
          /\ dupUnreported' = (dupUnreported \/ id \in DOMAIN handler_func_map)
    /\ UNCHANGED <<handler_network_class, map_live, lifeRet, handles, ghost, crashed>>

\* What the model records of a handle when it is created.
NewGhost(sender, sentId, n, dec_buf_len) ==
    [sender |-> sender,       \* where the request came from
     sentId |-> sentId,       \* the id the caller encoded (NoId: it was not delivered whole)
     wlen |-> n,              \* the delivered length
     dec_len |-> dec_buf_len, \* the length the decode context was created over
     ret |-> S_SUCCESS,       \* what fs_handler_receive returned
     execs |-> <<>>,          \* executor invocations: routine and the handle's fields
     gi |-> 0,                \* get_input calls
     giRet |-> S_SUCCESS,     \* what the last get_input returned
     decodes |-> 0,           \* decoder invocations
     bufFrees |-> 0,          \* free(recv_buf)
     procFrees |-> 0,         \* fs_proc_free(dec_proc)
     completes |-> 0,         \* complete calls
     coRet |-> S_SUCCESS,     \* what the last complete returned
     sends |-> <<>>,          \* na_send calls: address, tag, the bytes the encoder
                              \* needed, and whether the send had completed when
                              \* na_wait returned and the buffer was freed
     addrFrees |-> 0,         \* na_addr_free
     hFrees |-> 0]            \* free(priv_handle)

\* The operation id fs_handler_receive reads from n delivered bytes: the decode
\* context starts after the legacy id prefix and its first four bytes are the
\* id; bytes that were not delivered read as junk.
DecodedIdAtStart(wire, n, junk) ==
    IF n >= 4 THEN U32Value(SubSeq(wire, 1, 4)) ELSE junk

DecodedId(wire, n, junk) ==
    IF n >= SizeIdPrefix + 4
    THEN U32Value(SubSeq(wire, SizeIdPrefix + 1, SizeIdPrefix + 4))
    ELSE junk

\* int fs_handler_receive(void): one unexpected message is received.  The
\* caller encoded sentId and body; n bytes of it are delivered from sender;
\* junk is what the never-received bytes of the buffer read as.
fs_handler_receive(sender, sentId, body, n, junk) ==
    /\ ~crashed
    /\ Initialized
    /\ Len(handles) < MaxHandles
    /\ LET full == RequestBytes(sentId, body)
           wire == SubSeq(full, 1, n)
           whole == n >= SizeIdPrefix + 4
           dec_buf_len == (n - SizeIdPrefix) % (SizeMax + 1)
           id == DecodedId(wire, n, junk)
           proc_info == func_map_lookup(handler_func_map, id)
           priv_handle == [id |-> id, addr |-> sender.addr, tag |-> sender.tag,
                           dec_proc |-> "proc", recv_buf |-> "buf", in_struct |-> NULL]
           g == NewGhost(sender, IF whole THEN sentId ELSE NoId, n, dec_buf_len)
       IN /\ handles' = Append(handles, priv_handle)
          /\ ghost' = Append(ghost,
                IF proc_info = NoProcInfo
                THEN [g EXCEPT !.ret = S_FAIL]
                ELSE [g EXCEPT !.execs = <<[routine |-> proc_info.fs_routine,
                                            handle |-> priv_handle]>>])
    /\ UNCHANGED <<handler_network_class, handler_func_map, map_live, lifeRet, firstReg,
                   dupUnreported, crashed>>

\* The handle after get_input released the decode context and the buffer.
ReleasedInputKeepsPointers(priv_handle) == priv_handle

ReleasedInput(priv_handle) ==
    [priv_handle EXCEPT !.dec_proc = NULL, !.recv_buf = NULL]

\* int fs_handler_get_input(fs_handle_t handle, void *in_struct), called by
\* the code a handle was delivered to, before it completes the call.
fs_handler_get_input(h) ==
    /\ ~crashed
    /\ Initialized
    /\ Delivered(h)
    /\ ~Freed(h)
    /\ LET priv_handle == handles[h]
           proc_info == func_map_lookup(handler_func_map, priv_handle.id)
           g == [ghost[h] EXCEPT !.gi = Min(@ + 1, MaxCalls)]
       IN IF priv_handle.recv_buf # NULL /\ priv_handle.dec_proc # NULL
          THEN IF proc_info = NoProcInfo
               THEN /\ ghost' = [ghost EXCEPT ![h] = [g EXCEPT !.giRet = S_FAIL]]
                    /\ UNCHANGED handles
               ELSE /\ handles' = [handles EXCEPT ![h] = ReleasedInput(priv_handle)]
                    /\ ghost' = [ghost EXCEPT ![h] =
                          [g EXCEPT !.decodes = @ + 1,
                                    !.procFrees = @ + 1,
                                    !.bufFrees = @ + 1,
                                    !.giRet = S_SUCCESS]]
          ELSE /\ ghost' = [ghost EXCEPT ![h] = [g EXCEPT !.giRet = S_SUCCESS]]
               /\ UNCHANGED handles
    /\ UNCHANGED <<handler_network_class, handler_func_map, map_live, lifeRet, firstReg,
                   dupUnreported, crashed>>

\* na_wait(..., NA_MAX_IDLE_TIME, NA_STATUS_IGNORE), line 344: it returns when
\* the request has completed or when the time is up; fs_handler_complete
\* reads neither its return value nor a status.
WaitResults == {"completed", "timeout"}

\* The wait of a send that completes within the time.
InTime == {"completed"}

\* The body of fs_handler_complete once it reads the handle's fields as
\* priv_handle: lookup, allocation, encoding, send, wait, releases.
CompleteBody(h, priv_handle, outSize, mallocOk, waitRes) ==
    LET proc_info == func_map_lookup(handler_func_map, priv_handle.id)
        g == [ghost[h] EXCEPT !.completes = @ + 1]
    IN IF proc_info = NoProcInfo \/ ~mallocOk
       THEN /\ ghost' = [ghost EXCEPT ![h] = [g EXCEPT !.coRet = S_FAIL]]
            /\ UNCHANGED handles
       ELSE /\ handles' = [handles EXCEPT ![h].addr = NULL, ![h].in_struct = NULL]
            /\ ghost' = [ghost EXCEPT ![h] =
                  [g EXCEPT !.sends = Append(@, [addr |-> priv_handle.addr,
                                                 tag |-> priv_handle.tag,
                                                 need |-> outSize,
                                                 waited |-> waitRes]),
                            !.addrFrees = @ + 1,
                            !.hFrees = @ + 1,
                            !.coRet = S_SUCCESS]]

\* What a read of a handle that was freed may give: the fields as they were
\* left, something else, or an invalid access.
FreedReads == {"intact", "garbage", "crash"}

\* int fs_handler_complete(fs_handle_t handle, const void *out_struct), called
\* by the code the handle was delivered to.  The code holds no record of a
\* handle having been completed: on a freed handle it reads freed memory.
fs_handler_complete(h, outSize, mallocOk, waitRes, freedRead) ==
    /\ ~crashed
    /\ Initialized
    /\ Delivered(h)
    /\ ghost[h].completes < MaxCompletes
    /\ IF ~Freed(h)
       THEN /\ CompleteBody(h, handles[h], outSize, mallocOk, waitRes)
            /\ UNCHANGED crashed
       ELSE CASE freedRead = "intact" ->
                    /\ CompleteBody(h, handles[h], outSize, mallocOk, waitRes)
                    /\ UNCHANGED crashed
              [] freedRead = "garbage" ->
                    /\ CompleteBody(h, [handles[h] EXCEPT !.id = NoId], outSize, mallocOk, waitRes)
                    /\ UNCHANGED crashed
              [] freedRead = "crash" ->
                    /\ crashed' = TRUE
                    /\ UNCHANGED <<handles, ghost>>
    /\ UNCHANGED <<handler_network_class, handler_func_map, map_live, lifeRet, firstReg,
                   dupUnreported>>

InitFS ==
    /\ handler_network_class = NULL
    /\ handler_func_map = <<>>
    /\ map_live = FALSE
    /\ lifeRet = NoLifeRet
    /\ handles = <<>>
    /\ ghost = <<>>
    /\ firstReg = <<>>
    /\ dupUnreported = FALSE
    /\ crashed = FALSE



\* ------------------------------------------------------------ wireup (replies.c)

START_WIREUP_TAG == 17
\* The slots of a receive pool.
NSlots == 3
\* The bytes the responder's buffers hold beyond sizeof(wireup_msg_t).
ServerExtra == 93
\* offsetof(wireup_msg_t, addr[0]) and sizeof(wireup_msg_t): op, sender id and
\* address length, before the address bytes.
HdrLen == 24
SizeofWireupMsg == 24

OP_REQ == "OP_REQ"
OP_ACK == "OP_ACK"
UCS_OK == "UCS_OK"
UCS_ERR_MESSAGE_TRUNCATED == "UCS_ERR_MESSAGE_TRUNCATED"
UCS_ERR == "UCS_ERR"

\* A wireup message on the wire: len bytes, of which the first HdrLen are the
\* header (op, sender_id, addrlen) and the rest the address bytes.
WireMsg(op, addrlen, addr, len) ==
    [op |-> op, addrlen |-> addrlen, addr |-> addr, len |-> len]

NoMsg == WireMsg("none", 0, <<>>, 0)

\* run_client, lines 82-95: the request carrying the sender's address.
ReqMsg(local_addr) ==
    WireMsg(OP_REQ, Len(local_addr), local_addr, SizeofWireupMsg + Len(local_addr))

\* process_rx_msg, line 137: the reply, sent with sizeof(reply) bytes.
ReplyMsg == WireMsg(OP_ACK, 0, <<>>, SizeofWireupMsg)

\* twice_or_max: twice the size, or the largest size_t when that overflows.
twice_or_max(x) == IF 2 * x > SizeMax THEN SizeMax ELSE 2 * x

\* run_server_once, line 217: the length of the buffer that replaces a
\* truncated one.
NewBufLenNoHeader(buflen) == twice_or_max(buflen)

NewBufLen(buflen) == (twice_or_max(buflen) - HdrLen) % (SizeMax + 1)

\* A posted receive slot (rxdesc_t) with a buffer of buflen bytes.
PostedSlot(buflen) ==
    [st |-> "posted", tag |-> START_WIREUP_TAG, buflen |-> buflen,
     status |-> "none", rxlen |-> 0, sender_tag |-> 0, msg |-> NoMsg]

\* rxdesc_setup: the slot is posted again with the buffer it is given.
rxdesc_setup(pool, i, buflen) == [pool EXCEPT ![i] = PostedSlot(buflen)]

\* rxpool_init: every slot is posted on the tag with a buffer of buflen bytes.
rxpool_init(buflen) == [i \in 1..NSlots |-> PostedSlot(buflen)]

\* rxpool_destroy: the posted receives are cancelled and the buffers freed.
rxpool_destroy == [i \in 1..NSlots |-> [PostedSlot(0) EXCEPT !.st = "destroyed"]]

\* rxpool_next: the slots whose receive has completed (the pool returns one
\* of them, or NULL when there is none).
Completed(pool) == {i \in 1..NSlots : pool[i].st = "completed"}

\* The transport completes the receive of a slot with message m arriving on
\* the wireup tag: whole when it fits the buffer, truncated when it does not.
Arrived(slot, m) ==
    IF m.len <= slot.buflen
    THEN [slot EXCEPT !.st = "completed", !.status = UCS_OK, !.rxlen = m.len,
                      !.sender_tag = START_WIREUP_TAG, !.msg = m]
    ELSE [slot EXCEPT !.st = "completed", !.status = UCS_ERR_MESSAGE_TRUNCATED,
                      !.sender_tag = START_WIREUP_TAG]

\* The transport completes the receive of a slot with an error.
Failed(slot) == [slot EXCEPT !.st = "completed", !.status = UCS_ERR]

\* A send descriptor (txdesc_t) and the request it belongs to.
NoTx == [posted |-> FALSE, completed |-> FALSE, status |-> "none"]

\* send_callback: the status is stored and the completion flag set.
send_callback(desc, status) == [desc EXCEPT !.status = status, !.completed = TRUE]

\* ucp_worker_progress: what one call may do to a pool, a pending send and a
\* pending endpoint close: nothing, one arrival or failure on a posted slot
\* (while fewer than MaxArrivals receives have completed), the completion of
\* the send, the completion of the close.  Each outcome is the new pool, send
\* descriptor, close request and count of completed receives.
Progress(pool, tx, closing, n, msgs) ==
    LET posted == IF n < MaxArrivals
                  THEN {j \in 1..NSlots : pool[j].st = "posted"} ELSE {}
    IN {<<pool, tx, closing, n>>}
       \cup {<<[pool EXCEPT ![i] = Arrived(pool[i], m)], tx, closing, n + 1>> :
                i \in posted, m \in msgs}
       \cup {<<[pool EXCEPT ![i] = Failed(pool[i])], tx, closing, n + 1>> :
                i \in posted}
       \cup {<<pool, send_callback(tx, st), closing, n>> :
                st \in IF tx.posted /\ ~tx.completed THEN {UCS_OK, UCS_ERR} ELSE {}}
       \cup {<<pool, tx, "closed", n>> : x \in IF closing = "pending" THEN {1} ELSE {}}

\* What ucp_tag_send_nbx and ucp_ep_close_nb return: an error, a request that
\* completes later, or UCS_OK; on an endpoint that was never created the call
\* may also end the process.
CallResults == {"ERR", "PTR", "OK"}
InvalidEp == "CRASH"

\* ------------------------------------------------- the request on the wire

\* The values of an address byte in the model.
ByteVals == {0, 1, 255}

\* The serialized addresses: every byte sequence of at most MaxAddrLen bytes.
Addresses == UNION {[1..n -> ByteVals] : n \in 0..MaxAddrLen}

\* wireup_msg_t: op in the first byte, sender_id from byte 9, addrlen in the
\* eight bytes before the address, which starts HdrLen bytes in.
AddrLenOff == 16

\* The values of the op field.
OpCode(op) == IF op = OP_REQ THEN 0 ELSE 1

OpOfCode(b) == IF b = 0 THEN OP_REQ ELSE IF b = 1 THEN OP_ACK ELSE "other"

\* A size_t in memory: eight bytes, least significant first (the sizes of
\* the model fit the first three).
SizeBytes(v) == [k \in 1..8 |-> IF k <= 3 THEN (v \div (256 ^ (k - 1))) % 256 ELSE 0]

SizeValue(b) == b[1] + 256 * b[2] + 65536 * b[3]

\* run_client, lines 82-95: the zeroed buffer of sizeof(*req) + local_addr_len
\* bytes with op, sender_id and addrlen set and the address copied in.
ReqBytesNoAddrlen(local_addr) ==
    [i \in 1..(SizeofWireupMsg + Len(local_addr)) |->
        IF i = 1 THEN OpCode(OP_REQ)
        ELSE IF i > HdrLen /\ i <= HdrLen + Len(local_addr) THEN local_addr[i - HdrLen]
        ELSE 0]

ReqBytes(local_addr) ==
    [i \in 1..(SizeofWireupMsg + Len(local_addr)) |->
        IF i = 1 THEN OpCode(OP_REQ)
        ELSE IF i > AddrLenOff /\ i <= AddrLenOff + 8
             THEN SizeBytes(Len(local_addr))[i - AddrLenOff]
        ELSE IF i > HdrLen /\ i <= HdrLen + Len(local_addr) THEN local_addr[i - HdrLen]
        ELSE 0]

\* process_rx_msg, lines 148-169: what the responder reads from buflen bytes:
\* nothing from a message shorter than the header or with another op, else
\* the op, msg->addrlen and the bytes msg->addr points at.
NoParse == [op |-> "none", addrlen |-> 0, addr |-> <<>>]

ParseReq(buf, buflen) ==
    IF buflen < HdrLen THEN NoParse
    ELSE IF OpOfCode(buf[1]) # OP_REQ THEN NoParse
    ELSE LET addrlen == SizeValue(SubSeq(buf, AddrLenOff + 1, AddrLenOff + 8))
         IN [op |-> OpOfCode(buf[1]),
             addrlen |-> addrlen,
             addr |-> SubSeq(buf, HdrLen + 1, Min(HdrLen + addrlen, buflen))]

VARIABLES
    wire_pc,     \* idle, built, delivered, parsed
    wire_addr,   \* local_addr of the requester
    wire_buf,    \* the bytes of the request: req, then rdesc->buf
    wire_msg     \* what process_rx_msg read

wireVars == <<wire_pc, wire_addr, wire_buf, wire_msg>>

\* run_client builds the request from its address.
build_req(local_addr) ==
    /\ wire_pc = "idle"
    /\ wire_pc' = "built"
    /\ wire_addr' = local_addr
    /\ wire_buf' = ReqBytes(local_addr)
    /\ UNCHANGED wire_msg

\* The transport delivers the request whole into a buffer of the responder.
deliver_req ==
    /\ wire_pc = "built"
    /\ Len(wire_buf) <= SizeofWireupMsg + ServerExtra
    /\ wire_pc' = "delivered"
    /\ UNCHANGED <<wire_addr, wire_buf, wire_msg>>

\* process_rx_msg reads the delivered bytes.
parse_req ==
    /\ wire_pc = "delivered"
    /\ wire_pc' = "parsed"
    /\ wire_msg' = ParseReq(wire_buf, Len(wire_buf))
    /\ UNCHANGED <<wire_addr, wire_buf>>

InitWire ==
    /\ wire_pc = "idle"
    /\ wire_addr = <<>>
    /\ wire_buf = <<>>
    /\ wire_msg = NoParse

\* The messages that reach the responder: a request with a one-byte address,
\* a request whose address length exceeds the bytes sent, a message cut inside
\* the header, an acknowledgement, and a message larger than any buffer.
ServerMsgs ==
    {ReqMsg(<<1>>),
     WireMsg(OP_REQ, 5, <<1>>, HdrLen + 1),
     WireMsg(OP_REQ, 0, <<>>, HdrLen - 1),
     ReplyMsg,
     WireMsg(OP_REQ, SizeMax - HdrLen, <<>>, SizeMax)}

VARIABLES
    srv_pc,      \* where the responder is: once, drive, send_wait, close_wait,
                 \* done (run_server returned), exited (err), crashed
    srv_pool,    \* run_server's rxpool
    srv_tx,      \* process_rx_msg's desc
    srv_close,   \* the request of ep_close: none, pending, closed
    srv_rx,      \* ghost: the receives the transport has completed on the pool
    srv_log      \* ghost: what the last run_server_once did

srvVars == <<srv_pc, srv_pool, srv_tx, srv_close, srv_rx, srv_log>>

NoLog ==
    [slot |-> 0, status |-> "none", rxlen |-> 0, msg |-> NoMsg, tag |-> 0,
     oldlen |-> 0,        \* the slot's buffer length when it was taken
     ep |-> "none",       \* ucp_ep_create: none, ok, failed
     sends |-> <<>>,      \* ucp_tag_send_nbx calls: tag, message, result
     closes |-> <<>>,     \* ep_close calls: the send's result and flag at the call
     bufAllocs |-> 0,     \* malloc of a buffer for the slot
     bufFrees |-> 0]      \* free of the slot's old buffer

\* The log of a run_server_once that took slot i.
TakenLog(pool, i) ==
    [NoLog EXCEPT !.slot = i, !.status = pool[i].status, !.rxlen = pool[i].rxlen,
                  !.msg = pool[i].msg, !.tag = pool[i].sender_tag,
                  !.oldlen = pool[i].buflen]

\* run_server_once, lines 222-227: the new buffer is allocated and takes the
\* place of the old one, which is freed.
RegrownOldKept(log) == [log EXCEPT !.bufAllocs = @ + 1]

Regrown(log) == [log EXCEPT !.bufAllocs = @ + 1, !.bufFrees = @ + 1]

\* run_server_once, lines 233-234: the slot is set up again and the loop goes on.
ServerRearmNot(i) ==
    /\ srv_pool' = srv_pool
    /\ srv_pc' = "drive"

ServerRearm(i) ==
    /\ srv_pool' = rxdesc_setup(srv_pool, i, srv_pool[i].buflen)
    /\ srv_pc' = "drive"

\* ep_close, lines 41-54, called from process_rx_msg line 192 for the slot the
\* log names; what follows its return is the rest of run_server_once.
ServerEpClose(log, tx, closeRes) ==
    LET l == [log EXCEPT !.closes = Append(@, [res |-> log.sends[1].res,
                                               completed |-> tx.completed])]
    IN /\ srv_log' = l
       /\ srv_tx' = tx
       /\ CASE closeRes = InvalidEp ->
                  /\ srv_pc' = "crashed"
                  /\ UNCHANGED <<srv_pool, srv_close>>
            [] closeRes = "PTR" ->
                  /\ srv_pc' = "close_wait"
                  /\ srv_close' = "pending"
                  /\ UNCHANGED srv_pool
            [] OTHER ->
                  /\ srv_close' = "none"
                  /\ ServerRearm(log.slot)

\* process_rx_msg, lines 151-163: the messages that are dropped.
DroppedShortOnly(buf, buflen) == buflen < HdrLen

Dropped(buf, buflen) == buflen < HdrLen \/ buf.op # OP_REQ

\* process_rx_msg, line 182: the test of the wait for the send.
SendObservedAlways(desc) == TRUE

SendObserved(desc) == desc.completed

\* run_server_once with no completed slot.
run_server_once_none ==
    /\ srv_pc = "once"
    /\ Completed(srv_pool) = {}
    /\ srv_pc' = "drive"
    /\ srv_log' = NoLog
    /\ UNCHANGED <<srv_pool, srv_tx, srv_close, srv_rx>>

\* run_server_once on a slot that completed with UCS_OK: process_rx_msg up
\* to its wait for the send, or to its end.
run_server_once_ok(i, epOk, sendRes, closeRes) ==
    /\ srv_pc = "once"
    /\ UNCHANGED srv_rx
    /\ i \in Completed(srv_pool)
    /\ srv_pool[i].status = UCS_OK
    /\ LET log == TakenLog(srv_pool, i)
           buf == srv_pool[i].msg
           buflen == srv_pool[i].rxlen
           tag == srv_pool[i].sender_tag
       IN IF Dropped(buf, buflen)
          THEN /\ srv_log' = log
               /\ ServerRearm(i)
               /\ UNCHANGED <<srv_tx, srv_close>>
          ELSE LET ep == IF epOk THEN "ok" ELSE "failed"
                   sent == [log EXCEPT !.ep = ep,
                                       !.sends = <<[tag |-> tag, msg |-> ReplyMsg,
                                                    res |-> sendRes]>>]
               IN /\ (sendRes = InvalidEp \/ closeRes = InvalidEp) => ~epOk
                  /\ CASE sendRes = InvalidEp ->
                             /\ srv_pc' = "crashed"
                             /\ srv_log' = sent
                             /\ UNCHANGED <<srv_pool, srv_tx, srv_close>>
                       [] sendRes = "PTR" ->
                             /\ srv_pc' = "send_wait"
                             /\ srv_log' = sent
                             /\ srv_tx' = [NoTx EXCEPT !.posted = TRUE]
                             /\ UNCHANGED <<srv_pool, srv_close>>
                       [] OTHER -> ServerEpClose(sent, NoTx, closeRes)

\* run_server_once on a slot that completed truncated: a larger buffer, or
\* the end of the process when it cannot be allocated.
run_server_once_truncated(i, mallocOk) ==
    /\ srv_pc = "once"
    /\ i \in Completed(srv_pool)
    /\ srv_pool[i].status = UCS_ERR_MESSAGE_TRUNCATED
    /\ IF mallocOk
       THEN /\ srv_log' = Regrown(TakenLog(srv_pool, i))
            /\ srv_pool' = rxdesc_setup(srv_pool, i, NewBufLen(srv_pool[i].buflen))
            /\ srv_pc' = "drive"
       ELSE /\ srv_log' = TakenLog(srv_pool, i)
            /\ srv_pc' = "exited"
            /\ UNCHANGED srv_pool
    /\ UNCHANGED <<srv_tx, srv_close, srv_rx>>

\* run_server_once on a slot that completed with another status: the loop of
\* run_server ends and the pool is destroyed.
run_server_once_error(i) ==
    /\ srv_pc = "once"
    /\ i \in Completed(srv_pool)
    /\ srv_pool[i].status \notin {UCS_OK, UCS_ERR_MESSAGE_TRUNCATED}
    /\ srv_log' = TakenLog(srv_pool, i)
    /\ srv_pool' = rxpool_destroy
    /\ srv_pc' = "done"
    /\ UNCHANGED <<srv_tx, srv_close, srv_rx>>

\* run_server, line 246: ucp_worker_progress between two run_server_once.
run_server_progress ==
    /\ srv_pc = "drive"
    /\ \E o \in Progress(srv_pool, srv_tx, srv_close, srv_rx, ServerMsgs) :
          /\ srv_pool' = o[1]
          /\ srv_tx' = o[2]
          /\ srv_close' = o[3]
          /\ srv_rx' = o[4]
    /\ srv_pc' = "once"
    /\ srv_log' = NoLog

\* process_rx_msg, lines 182-192: one turn of the wait for the send, and what
\* follows it once the flag is set.
process_rx_msg_wait(closeRes) ==
    /\ srv_pc = "send_wait"
    /\ IF ~SendObserved(srv_tx)
       THEN /\ \E o \in Progress(srv_pool, srv_tx, srv_close, srv_rx, ServerMsgs) :
                  /\ srv_pool' = o[1]
                  /\ srv_tx' = o[2]
                  /\ srv_close' = o[3]
                  /\ srv_rx' = o[4]
            /\ UNCHANGED <<srv_pc, srv_log>>
       ELSE /\ closeRes = InvalidEp => srv_log.ep = "failed"
            /\ ServerEpClose(srv_log, srv_tx, closeRes)
            /\ UNCHANGED srv_rx

\* ep_close, lines 52-53: one turn of the wait for the close, and the rest of
\* run_server_once after it.
ep_close_wait ==
    /\ srv_pc = "close_wait"
    /\ IF srv_close # "closed"
       THEN /\ \E o \in Progress(srv_pool, srv_tx, srv_close, srv_rx, ServerMsgs) :
                  /\ srv_pool' = o[1]
                  /\ srv_tx' = o[2]
                  /\ srv_close' = o[3]
                  /\ srv_rx' = o[4]
            /\ UNCHANGED <<srv_pc, srv_log>>
       ELSE /\ srv_close' = "none"
            /\ ServerRearm(srv_log.slot)
            /\ UNCHANGED <<srv_tx, srv_log, srv_rx>>

\* run_server, lines 242-243: the pool of the responder.
InitServer ==
    /\ srv_pc = "once"
    /\ srv_pool = rxpool_init(SizeofWireupMsg + ServerExtra)
    /\ srv_tx = NoTx
    /\ srv_close = "none"
    /\ srv_rx = 0
    /\ srv_log = NoLog


\* ------------------------------------------------------- wireup requester

\* The messages that reach the requester: the acknowledgement, a request of
\* the same length, a message cut inside the header, and an acknowledgement
\* longer than the requester's buffers.
ClientMsgs ==
    {ReplyMsg,
     ReqMsg(<<>>),
     WireMsg(OP_ACK, 0, <<>>, HdrLen - 1),
     WireMsg(OP_ACK, 1, <<1>>, SizeofWireupMsg + 1)}

\* What the op field of a buffer reads as where no whole header was received.
JunkOps == {OP_REQ, OP_ACK}

\* The requester's own address.
LocalAddrs == {<<>>, <<1, 2>>}

VARIABLES
    cl_pc,       \* where the requester is: start, send_wait, poll, close_wait,
                 \* done (run_client returned), aborted (assert), exited (errx)
    cl_pool,     \* run_client's rxpool
    cl_tx,       \* run_client's tdesc
    cl_close,    \* the request of ep_close: none, pending, closed
    cl_rx,       \* ghost: the receives the transport has completed on the pool
    cl_req,      \* the request buffer: none, allocated, freed
    cl_log       \* ghost: the send of the request and the slot taken as the reply

clVars == <<cl_pc, cl_pool, cl_tx, cl_close, cl_rx, cl_req, cl_log>>

NoClientLog ==
    [sends |-> <<>>,      \* ucp_tag_send_nbx calls: tag, message, result
     freedAt |-> "none",  \* the send's result and flag when free(req) ran
     slot |-> 0, status |-> "none", rxlen |-> 0, msg |-> NoMsg,
     op |-> "none"]       \* what reply->op read as

\* The op field is the first byte of a wireup message.
OpEnd == 1

\* reply->op, line 121: the op of the message when the receive completed with
\* its first byte delivered, or whatever the buffer holds.
ReplyOp(slot, junk) ==
    IF slot.status = UCS_OK /\ slot.rxlen >= OpEnd THEN slot.msg.op ELSE junk

\* run_client, line 114: free(req), and on to the polling loop.
ClientFreeReqNoWait(log, tx) ==
    /\ cl_req' = "freed"
    /\ cl_log' = [log EXCEPT !.freedAt = [res |-> log.sends[1].res,
                                          completed |-> tx.completed]]
    /\ cl_pc' = "done"

ClientFreeReq(log, tx) ==
    /\ cl_req' = "freed"
    /\ cl_log' = [log EXCEPT !.freedAt = [res |-> log.sends[1].res,
                                          completed |-> tx.completed]]
    /\ cl_pc' = "poll"

\* run_client, lines 82-114: the endpoint, the pool, the request and its send.
run_client_start(local_addr, epOk, sendRes) ==
    /\ cl_pc = "start"
    /\ IF ~epOk
       THEN /\ cl_pc' = "exited"
            /\ cl_req' = "allocated"
            /\ UNCHANGED <<cl_pool, cl_tx, cl_log>>
       ELSE LET log == [NoClientLog EXCEPT
                           !.sends = <<[tag |-> START_WIREUP_TAG,
                                        msg |-> ReqMsg(local_addr),
                                        res |-> sendRes]>>]
            IN /\ cl_pool' = rxpool_init(SizeofWireupMsg)
               /\ IF sendRes = "PTR"
                  THEN /\ cl_tx' = [NoTx EXCEPT !.posted = TRUE]
                       /\ cl_pc' = "send_wait"
                       /\ cl_req' = "allocated"
                       /\ cl_log' = log
                  ELSE /\ cl_tx' = NoTx
                       /\ ClientFreeReq(log, NoTx)
    /\ UNCHANGED <<cl_close, cl_rx>>

\* run_client, lines 104-114: one turn of the wait for the send, and what
\* follows it once the flag is set.
run_client_send_wait ==
    /\ cl_pc = "send_wait"
    /\ IF ~cl_tx.completed
       THEN /\ \E o \in Progress(cl_pool, cl_tx, cl_close, cl_rx, ClientMsgs) :
                  /\ cl_pool' = o[1]
                  /\ cl_tx' = o[2]
                  /\ cl_close' = o[3]
                  /\ cl_rx' = o[4]
            /\ UNCHANGED <<cl_pc, cl_req, cl_log>>
       ELSE /\ ClientFreeReq(cl_log, cl_tx)
            /\ UNCHANGED <<cl_pool, cl_tx, cl_close, cl_rx>>

\* run_client, lines 116-125: one turn of the polling loop, and what follows
\* it once rxpool_next returns a slot: the assertion on the op, the pool
\* destroyed, the endpoint closed.
run_client_poll(i, junk, closeRes) ==
    /\ cl_pc = "poll"
    /\ IF Completed(cl_pool) = {}
       THEN /\ \E o \in Progress(cl_pool, cl_tx, cl_close, cl_rx, ClientMsgs) :
                  /\ cl_pool' = o[1]
                  /\ cl_tx' = o[2]
                  /\ cl_close' = o[3]
                  /\ cl_rx' = o[4]
            /\ UNCHANGED <<cl_pc, cl_req, cl_log>>
       ELSE /\ i \in Completed(cl_pool)
            /\ LET rdesc == cl_pool[i]
                   op == ReplyOp(rdesc, junk)
               IN /\ cl_log' = [cl_log EXCEPT !.slot = i, !.status = rdesc.status,
                                              !.rxlen = rdesc.rxlen, !.msg = rdesc.msg,
                                              !.op = op]
                  /\ IF op # OP_ACK
                     THEN /\ cl_pc' = "aborted"
                          /\ UNCHANGED <<cl_pool, cl_close>>
                     ELSE /\ cl_pool' = rxpool_destroy
                          /\ IF closeRes = "PTR"
                             THEN cl_close' = "pending" /\ cl_pc' = "close_wait"
                             ELSE cl_close' = "none" /\ cl_pc' = "done"
            /\ UNCHANGED <<cl_tx, cl_rx, cl_req>>

\* ep_close, lines 52-53, called from run_client: one turn of the wait.
run_client_close_wait ==
    /\ cl_pc = "close_wait"
    /\ IF cl_close # "closed"
       THEN /\ \E o \in Progress(cl_pool, cl_tx, cl_close, cl_rx, ClientMsgs) :
                  /\ cl_pool' = o[1]
                  /\ cl_tx' = o[2]
                  /\ cl_close' = o[3]
                  /\ cl_rx' = o[4]
            /\ UNCHANGED <<cl_pc, cl_req, cl_log>>
       ELSE /\ cl_close' = "none"
            /\ cl_pc' = "done"
            /\ UNCHANGED <<cl_pool, cl_tx, cl_rx, cl_req, cl_log>>

\* run_client before its first statement.
InitClient ==
    /\ cl_pc = "start"
    /\ cl_pool = rxpool_destroy
    /\ cl_tx = NoTx
    /\ cl_close = "none"
    /\ cl_rx = 0
    /\ cl_req = "none"
    /\ cl_log = NoClientLog

NextClient ==
    \/ /\ \E local_addr \in LocalAddrs, epOk \in BOOLEAN, sendRes \in CallResults :
             run_client_start(local_addr, epOk, sendRes)
       /\ UNCHANGED <<fsVars, srvVars, wireVars>>
    \/ /\ run_client_send_wait
       /\ UNCHANGED <<fsVars, srvVars, wireVars>>
    \/ /\ \E i \in 1..NSlots, junk \in JunkOps, closeRes \in CallResults :
             run_client_poll(i, junk, closeRes)
       /\ UNCHANGED <<fsVars, srvVars, wireVars>>
    \/ /\ run_client_close_wait
       /\ UNCHANGED <<fsVars, srvVars, wireVars>>

\* ---------------------------------------------------------- specifications

NextFS ==
    \/ /\ \E nc \in {"na"} : fs_handler_init(nc)
       /\ UNCHANGED <<srvVars, clVars, wireVars>>
    \/ /\ fs_handler_finalize
       /\ UNCHANGED <<srvVars, clVars, wireVars>>
    \/ /\ \E name \in Names : fs_handler_register(name)
       /\ UNCHANGED <<srvVars, clVars, wireVars>>
    \/ /\ \E sender \in Senders, sentId \in OpIds, body \in Bodies, junk \in JunkIds :
             \E n \in DeliveredLens(RequestBytes(sentId, body)) :
                fs_handler_receive(sender, sentId, body, n, junk)
       /\ UNCHANGED <<srvVars, clVars, wireVars>>
    \/ /\ \E h \in 1..MaxHandles : fs_handler_get_input(h)
       /\ UNCHANGED <<srvVars, clVars, wireVars>>
    \/ /\ \E h \in 1..MaxHandles, outSize \in FitSizes, mallocOk \in BOOLEAN,
             waitRes \in InTime, freedRead \in FreedReads :
             fs_handler_complete(h, outSize, mallocOk, waitRes, freedRead)
       /\ UNCHANGED <<srvVars, clVars, wireVars>>

\* The reply path of the handler: one registered function, and every size of
\* response and every outcome of the wait.
NextReply ==
    \/ /\ \E nc \in {"na"} : fs_handler_init(nc)
       /\ UNCHANGED <<srvVars, clVars, wireVars>>
    \/ /\ \E name \in {"foo"} : fs_handler_register(name)
       /\ UNCHANGED <<srvVars, clVars, wireVars>>
    \/ /\ \E sender \in Senders, sentId \in OpIds, body \in Bodies, junk \in JunkIds :
             \E n \in DeliveredLens(RequestBytes(sentId, body)) :
                fs_handler_receive(sender, sentId, body, n, junk)
       /\ UNCHANGED <<srvVars, clVars, wireVars>>
    \/ /\ \E h \in 1..MaxHandles : fs_handler_get_input(h)
       /\ UNCHANGED <<srvVars, clVars, wireVars>>
    \/ /\ \E h \in 1..MaxHandles, outSize \in OutSizes, mallocOk \in BOOLEAN,
             waitRes \in WaitResults, freedRead \in FreedReads :
             fs_handler_complete(h, outSize, mallocOk, waitRes, freedRead)
       /\ UNCHANGED <<srvVars, clVars, wireVars>>

\* The network classes a caller may pass to fs_handler_init.
NetworkClasses == {"na", "nb"}

\* The handler initialized and finalized over and over, with either network
\* class, around calls delivered whole from one sender and completed once
\* each by their executors.
NextLife ==
    \/ /\ \E nc \in NetworkClasses : fs_handler_init(nc)
       /\ UNCHANGED <<srvVars, clVars, wireVars>>
    \/ /\ fs_handler_finalize
       /\ UNCHANGED <<srvVars, clVars, wireVars>>
    \/ /\ \E name \in Names : fs_handler_register(name)
       /\ UNCHANGED <<srvVars, clVars, wireVars>>
    \/ /\ \E sender \in {s \in Senders : s.addr = "a1"}, sentId \in OpIds,
             body \in Bodies, junk \in JunkIds :
                fs_handler_receive(sender, sentId, body,
                                   Len(RequestBytes(sentId, body)), junk)
       /\ UNCHANGED <<srvVars, clVars, wireVars>>
    \/ /\ \E h \in {i \in 1..MaxHandles : ~Freed(i)}, outSize \in FitSizes,
             mallocOk \in BOOLEAN, waitRes \in InTime, freedRead \in {"intact"} :
             fs_handler_complete(h, outSize, mallocOk, waitRes, freedRead)
       /\ UNCHANGED <<srvVars, clVars, wireVars>>

NextServer ==
    \/ /\ run_server_once_none
       /\ UNCHANGED <<fsVars, clVars, wireVars>>
    \/ /\ \E i \in 1..NSlots, epOk \in BOOLEAN, sendRes \in CallResults \cup {InvalidEp},
             closeRes \in CallResults \cup {InvalidEp} :
             run_server_once_ok(i, epOk, sendRes, closeRes)
       /\ UNCHANGED <<fsVars, clVars, wireVars>>
    \/ /\ \E i \in 1..NSlots, mallocOk \in BOOLEAN : run_server_once_truncated(i, mallocOk)
       /\ UNCHANGED <<fsVars, clVars, wireVars>>
    \/ /\ \E i \in 1..NSlots : run_server_once_error(i)
       /\ UNCHANGED <<fsVars, clVars, wireVars>>
    \/ /\ run_server_progress
       /\ UNCHANGED <<fsVars, clVars, wireVars>>
    \/ /\ \E closeRes \in CallResults \cup {InvalidEp} : process_rx_msg_wait(closeRes)
       /\ UNCHANGED <<fsVars, clVars, wireVars>>
    \/ /\ ep_close_wait
       /\ UNCHANGED <<fsVars, clVars, wireVars>>

\* The request from the requester's memory to the responder's.
NextWire ==
    \/ /\ \E local_addr \in Addresses : build_req(local_addr)
       /\ UNCHANGED <<fsVars, srvVars, clVars>>
    \/ /\ deliver_req
       /\ UNCHANGED <<fsVars, srvVars, clVars>>
    \/ /\ parse_req
       /\ UNCHANGED <<fsVars, srvVars, clVars>>

vars == <<fsVars, srvVars, clVars, wireVars>>

Init == InitFS /\ InitServer /\ InitClient /\ InitWire

\* The handler driven by its callers, with responses that fit one buffer and
\* sends that complete within the wait.
SpecFS == Init /\ [][NextFS]_vars

\* The handler replying through a transport that may be slow, with responses
\* of every size.
SpecReply == Init /\ [][NextReply]_vars

\* The handler's life cycle: initialized and finalized over and over.
SpecLife == Init /\ [][NextLife]_vars

\* The wireup responder driven by its transport.
SpecServer == Init /\ [][NextServer]_vars

\* The wireup requester driven by its transport.
SpecClient == Init /\ [][NextClient]_vars

\* One request built, delivered and read.
SpecWire == Init /\ [][NextWire]_vars

\* ------------------------------------------------------------------ properties

\* C1: get_input is idempotent.  A call of get_input on a handle that has
\* been through get_input before changes nothing of the handle, invokes no
\* decoder, releases nothing and returns success; the decoder has run once and
\* the decode context and the receive buffer have been released once in total.
C1_GetInputIdempotent ==
    [][\A h \in 1..Len(handles) :
          (ghost[h].gi >= 1 /\ ghost'[h].gi = ghost[h].gi + 1)
          => /\ handles'[h] = handles[h]
             /\ ghost'[h] = [ghost[h] EXCEPT !.gi = @ + 1, !.giRet = S_SUCCESS]
             /\ ghost'[h].giRet = S_SUCCESS
             /\ ghost'[h].decodes = 1
             /\ ghost'[h].procFrees = 1
             /\ ghost'[h].bufFrees = 1]_vars

\* C1, witness: get_input was called twice on a delivered handle.
C1_Witness ==
    \E h \in 1..Len(handles) : ghost[h].gi = 2 /\ ghost[h].decodes = 1

\* C2: complete consumes the handle.  No handle is ever the subject of a
\* second send, a second release of its peer address or a second release of
\* the handle itself.
C2_CompleteConsumesHandle ==
    \A h \in 1..Len(handles) :
        /\ Len(ghost[h].sends) <= 1
        /\ ghost[h].addrFrees <= 1
        /\ ghost[h].hFrees <= 1

\* C3: a call whose operation id is not registered is dropped with failure
\* and its handle owns neither the receive buffer nor the decode context.
C3_DroppedCallReleasesAll ==
    \A h \in 1..Len(handles) :
        ghost[h].execs = <<>>
        => /\ ghost[h].ret = S_FAIL
           /\ handles[h].recv_buf = NULL
           /\ handles[h].dec_proc = NULL

\* C4: register fails instead of overwriting.  Every registration under an
\* id that is present is reported as an error, and every id of the registry
\* maps to the triple that was registered first under it.
C4_RegisterKeepsFirst ==
    /\ ~dupUnreported
    /\ \A id \in DOMAIN handler_func_map : handler_func_map[id] = firstReg[id]

\* C5: registry dispatch.  A step that receives a message creates one handle;
\* if the id it decoded is registered, that id's executor is invoked once with
\* a handle carrying the id and the sender's address and tag, and success is
\* returned; if not, no executor is invoked and failure is returned.  The id of
\* a message delivered whole is the id its sender encoded.  No later step
\* invokes an executor on the handle again.
C5_RegistryDispatch ==
    [][/\ \A h \in 1..Len(handles) : ghost'[h].execs = ghost[h].execs
       /\ Len(handles') = Len(handles) + 1
          => LET h == Len(handles')
                 g == ghost'[h]
                 id == handles'[h].id
             IN /\ g.sentId # NoId => id = g.sentId
                /\ IF id \in DOMAIN handler_func_map
                   THEN /\ g.ret = S_SUCCESS
                        /\ g.execs = <<[routine |-> handler_func_map[id].fs_routine,
                                        handle |-> [id |-> id,
                                                    addr |-> g.sender.addr,
                                                    tag |-> g.sender.tag,
                                                    dec_proc |-> "proc",
                                                    recv_buf |-> "buf",
                                                    in_struct |-> NULL]]>>
                   ELSE /\ g.ret = S_FAIL
                        /\ g.execs = <<>>]_vars

\* C5, witness: one message with a registered id was dispatched and one with
\* an unregistered id was dropped, both delivered whole.
C5_Witness ==
    \E h1, h2 \in 1..Len(handles) :
        /\ ghost[h1].sentId # NoId /\ Len(ghost[h1].execs) = 1
        /\ ghost[h2].sentId # NoId /\ ghost[h2].execs = <<>> /\ ghost[h2].ret = S_FAIL

\* A request taken from the pool whole: the header and all the address bytes
\* its header announces were delivered.
WellFormedReq(log) ==
    /\ log.slot # 0
    /\ log.status = UCS_OK
    /\ log.rxlen >= HdrLen
    /\ log.msg.op = OP_REQ
    /\ log.rxlen >= HdrLen + log.msg.addrlen

\* C6: a request whose address length exceeds the bytes delivered is dropped:
\* no endpoint is created from it and no acknowledgement is sent for it.
C6_AddressCutDropped ==
    (/\ srv_log.slot # 0
     /\ srv_log.status = UCS_OK
     /\ srv_log.rxlen >= HdrLen
     /\ srv_log.msg.op = OP_REQ
     /\ srv_log.rxlen < HdrLen + srv_log.msg.addrlen)
    => (srv_log.ep = "none" /\ srv_log.sends = <<>>)

\* C7: a message delivered with UCS_OK that is shorter than the header, or
\* whose op is not OP_REQ, creates no endpoint and no reply; run_server_once
\* sets its slot up again with the same buffer and the loop goes on.
C7_MalformedDropped ==
    (/\ srv_log.slot # 0
     /\ srv_log.status = UCS_OK
     /\ (srv_log.rxlen < HdrLen \/ srv_log.msg.op # OP_REQ))
    => /\ srv_log.ep = "none"
       /\ srv_log.sends = <<>>
       /\ srv_log.closes = <<>>
       /\ srv_pc = "drive"
       /\ srv_pool[srv_log.slot] = PostedSlot(srv_log.oldlen)

\* C7, witness: a message whose op is OP_ACK was taken from the pool and
\* dropped, as the second arrival or later, and run_server_once returned.
C7_Witness ==
    /\ srv_log.status = UCS_OK
    /\ srv_log.msg.op = OP_ACK
    /\ srv_pc = "drive"
    /\ srv_rx >= 2

\* C8 as stated: the slot of a truncated receive is set up again with at least
\* min(2 * c, SizeMax) bytes, c being its length before.
C8_AtLeastDoubled ==
    (srv_log.status = UCS_ERR_MESSAGE_TRUNCATED /\ srv_pc = "drive")
    => srv_pool[srv_log.slot].buflen >= Min(2 * srv_log.oldlen, SizeMax)

\* C8, amended: the slot of a truncated receive is set up again with
\* min(2 * c, SizeMax) - HdrLen bytes: one header less than the doubled length,
\* no less than c, and never wrapped around.
C8_DoubledLessHeader ==
    (srv_log.status = UCS_ERR_MESSAGE_TRUNCATED /\ srv_pc = "drive")
    => LET c == srv_log.oldlen
           n == srv_pool[srv_log.slot].buflen
       IN /\ srv_pool[srv_log.slot].st = "posted"
          /\ n = Min(2 * c, SizeMax) - HdrLen
          /\ n >= c
          /\ n <= SizeMax

\* C8, witness: a truncated slot whose doubled length exceeds SizeMax was set
\* up again.
C8_Witness ==
    /\ srv_log.status = UCS_ERR_MESSAGE_TRUNCATED
    /\ srv_pc = "drive"
    /\ 2 * srv_log.oldlen > SizeMax

\* C10 as stated, over the requests whose reply endpoint was created: for a
\* well-formed request the responder sends one acknowledgement, with address
\* length 0, on the tag of the request, and calls ep_close only with the
\* send's flag set or the send completed at once.
C10_AckThenClose ==
    (WellFormedReq(srv_log) /\ srv_log.ep = "ok")
    => /\ Len(srv_log.sends) = 1
       /\ srv_log.sends[1].tag = srv_log.tag
       /\ srv_log.sends[1].msg.op = OP_ACK
       /\ srv_log.sends[1].msg.addrlen = 0
       /\ srv_log.sends[1].res \in {"PTR", "OK"}
       /\ \A k \in 1..Len(srv_log.closes) :
             srv_log.closes[k].completed \/ srv_log.closes[k].res = "OK"

\* C10, amended: for a well-formed request the responder calls the send of
\* the acknowledgement once, with address length 0, on the tag of the
\* request; ep_close is called at most once, and only with the send's flag
\* set, or the send completed at once, or the send call returned an error;
\* when run_server_once returns, ep_close has been called.
C10_AckPostedThenClose ==
    WellFormedReq(srv_log)
    => /\ Len(srv_log.sends) = 1
       /\ srv_log.sends[1].tag = srv_log.tag
       /\ srv_log.sends[1].msg.op = OP_ACK
       /\ srv_log.sends[1].msg.addrlen = 0
       /\ Len(srv_log.closes) <= 1
       /\ \A k \in 1..Len(srv_log.closes) :
             \/ srv_log.closes[k].res = "PTR" /\ srv_log.closes[k].completed
             \/ srv_log.closes[k].res \in {"OK", "ERR"}
       /\ srv_pc = "drive" => Len(srv_log.closes) = 1
       /\ srv_pc = "send_wait" => srv_log.closes = <<>>

\* C10, witness: the send of an acknowledgement was pending, its flag was
\* seen set, the endpoint was closed and run_server_once returned.
C10_Witness ==
    /\ WellFormedReq(srv_log)
    /\ srv_pc = "drive"
    /\ srv_log.ep = "ok"
    /\ Len(srv_log.closes) = 1
    /\ srv_log.closes[1].res = "PTR"
    /\ srv_log.closes[1].completed

\* C9: the requester has destroyed its pool and gone on to close its endpoint
\* and return only when the slot it took had completed with UCS_OK and held a
\* message whose op is OP_ACK, after the request was sent; a slot that
\* completed truncated or with an error is never taken as the acknowledgement.
C9_AckedOnlyAfterOkAck ==
    cl_pc \in {"close_wait", "done"}
    => /\ Len(cl_log.sends) = 1
       /\ cl_log.sends[1].msg.op = OP_REQ
       /\ cl_log.slot # 0
       /\ cl_log.status = UCS_OK
       /\ cl_log.msg.op = OP_ACK

\* C11: the request is sent at most once, and as long as no receive has
\* completed on the requester's pool (the request or its acknowledgement was
\* lost), the requester that sent it is in one of its two loops around
\* ucp_worker_progress: it has neither gone on to close the endpoint, nor
\* returned, nor ended the process.
C11_NoTimeoutNoResend ==
    /\ Len(cl_log.sends) <= 1
    /\ (cl_rx = 0 /\ cl_log.sends # <<>>) => cl_pc \in {"send_wait", "poll"}

\* C11, witness: the send of the request has completed, the request was
\* freed, and the requester polls a pool on which nothing has arrived.
C11_Witness ==
    /\ cl_pc = "poll"
    /\ cl_rx = 0
    /\ cl_tx.completed
    /\ cl_req = "freed"

\* C12: the buffer of a send is released only when the send is known to be
\* over: the reply of fs_handler_complete after its send completed (stated
\* for the first complete of a call whose request was delivered whole), the
\* request of run_client and the reply of process_rx_msg after the flag of a
\* pending send was set (or the send call had returned at once).
C12_BufferKeptUntilCompletion ==
    /\ \A h \in 1..Len(handles) :
          (ghost[h].sentId # NoId /\ ghost[h].sends # <<>>)
          => ghost[h].sends[1].waited = "completed"
    /\ cl_req = "freed"
          => (cl_log.freedAt.res = "PTR" => cl_log.freedAt.completed)
    /\ \A k \in 1..Len(srv_log.closes) :
          srv_log.closes[k].res = "PTR" => srv_log.closes[k].completed

\* C13: the request built from an address, delivered whole and read by
\* process_rx_msg, gives op OP_REQ, the length of the address and the bytes
\* of the address.
C13_WireupRoundTrip ==
    wire_pc = "parsed"
    => /\ wire_msg.op = OP_REQ
       /\ wire_msg.addrlen = Len(wire_addr)
       /\ wire_msg.addr = wire_addr

\* C13, witness: a request carrying an address of the greatest length, with
\* a byte of the greatest value, was read.
C13_Witness ==
    /\ wire_pc = "parsed"
    /\ Len(wire_addr) = MaxAddrLen
    /\ wire_addr[MaxAddrLen] = 255

\* C14: a message delivered with fewer bytes than the legacy id prefix is
\* dropped: its receive buffer is released, no decode context is created (in
\* particular none over a length that wrapped around below zero), and no
\* executor is called with its handle.
C14_ShortMessageDropped ==
    \A h \in 1..Len(handles) :
        ghost[h].wlen < SizeIdPrefix
        => /\ handles[h].recv_buf = NULL
           /\ handles[h].dec_proc = NULL
           /\ ghost[h].dec_len <= ghost[h].wlen
           /\ ghost[h].execs = <<>>

\* C15: no reply is sent for a response whose encoded size with the legacy
\* status prefix exceeds the size of an unexpected message (stated for the
\* first complete of a call whose request was delivered whole).
C15_OversizeRejected ==
    \A h \in 1..Len(handles) :
        (ghost[h].sentId # NoId /\ ghost[h].sends # <<>>)
        => ghost[h].sends[1].need + SizeStatusPrefix <= UnexpectedSize

\* C16: every reply fs_handler_complete sends for a call goes to the address
\* the request of that call arrived from, on the tag it arrived with.
C16_ReplyToRecordedPeer ==
    \A h \in 1..Len(handles) :
        \A k \in 1..Len(ghost[h].sends) :
            /\ ghost[h].sends[k].addr = ghost[h].sender.addr
            /\ ghost[h].sends[k].tag = ghost[h].sender.tag

\* C17: run_server leaves its loop and destroys the pool only on a slot that
\* completed with a status other than UCS_OK and UCS_ERR_MESSAGE_TRUNCATED,
\* and a slot that completed with UCS_OK never ends the serving (the end of
\* the process on a failed allocation for a truncated slot is left aside).
C17_OnlyErrorEndsLoop ==
    /\ srv_pc = "done"
          => /\ srv_log.status \notin {UCS_OK, UCS_ERR_MESSAGE_TRUNCATED, "none"}
             /\ \A i \in 1..NSlots : srv_pool[i].st = "destroyed"
    /\ srv_log.status = UCS_OK => srv_pc \notin {"done", "exited", "crashed"}
    /\ srv_log.status = UCS_ERR_MESSAGE_TRUNCATED => srv_pc \notin {"done", "crashed"}

\* C18: for a call delivered whole whose executor has called get_input and
\* then complete once, the peer address and the handle have each been
\* released once, after one reply was sent and waited for when complete
\* succeeded, and also when complete returned failure.
C18_ReleasedOnEveryPath ==
    \A h \in 1..Len(handles) :
        (ghost[h].sentId # NoId /\ ghost[h].gi >= 1 /\ ghost[h].completes = 1)
        => /\ ghost[h].addrFrees = 1
           /\ ghost[h].hFrees = 1
           /\ ghost[h].coRet = S_SUCCESS => Len(ghost[h].sends) = 1

\* The responder is about to call ucp_worker_progress: in the loop of
\* run_server, in the wait of process_rx_msg or in the wait of ep_close.
AtDriveCall ==
    \/ srv_pc = "drive"
    \/ srv_pc = "send_wait" /\ ~srv_tx.completed
    \/ srv_pc = "close_wait" /\ srv_close # "closed"

\* C19 as stated, over the requests whose reply endpoint was created: at
\* every call of ucp_worker_progress all NSlots slots of the pool are posted.
C19_AllPostedAtDrive ==
    (AtDriveCall /\ srv_log.ep # "failed")
    => \A i \in 1..NSlots : srv_pool[i].st = "posted"

\* C19, amended: a slot taken with UCS_OK or UCS_ERR_MESSAGE_TRUNCATED is
\* posted again when run_server_once has returned, before run_server drives
\* the transport; while process_rx_msg and ep_close drive the transport in
\* their waits the slot taken is not posted; and no slot is ever in another
\* condition than posted or completed while the responder serves.
C19_RearmedBeforeReturn ==
    /\ (srv_pc = "drive" /\ srv_log.status \in {UCS_OK, UCS_ERR_MESSAGE_TRUNCATED})
          => srv_pool[srv_log.slot].st = "posted"
    /\ srv_pc \in {"send_wait", "close_wait"}
          => srv_pool[srv_log.slot].st = "completed"
    /\ srv_pc \in {"once", "drive", "send_wait", "close_wait"}
          => \A i \in 1..NSlots : srv_pool[i].st \in {"posted", "completed"}

\* C19, witness: run_server_once has returned from a request it answered,
\* its slot is posted again, and another slot, completed during the waits,
\* is not posted as run_server calls ucp_worker_progress.
C19_Witness ==
    /\ srv_pc = "drive"
    /\ WellFormedReq(srv_log)
    /\ srv_pool[srv_log.slot].st = "posted"
    /\ \E j \in 1..NSlots : srv_pool[j].st = "completed"

\* C20: a slot that completed truncated is never processed as a message: no
\* endpoint is created, nothing is sent and nothing closed for it; when
\* run_server_once has returned, one new buffer was allocated, the old one
\* was freed once, and the slot is posted with the new buffer on the wireup
\* tag.  When the allocation fails the process ends with the old buffer not
\* freed.
C20_TruncatedRegrown ==
    srv_log.status = UCS_ERR_MESSAGE_TRUNCATED
    => /\ srv_log.ep = "none"
       /\ srv_log.sends = <<>>
       /\ srv_log.closes = <<>>
       /\ srv_pc \in {"drive", "exited"}
       /\ srv_pc = "drive"
             => /\ srv_log.bufAllocs = 1
                /\ srv_log.bufFrees = 1
                /\ srv_pool[srv_log.slot] = PostedSlot(NewBufLen(srv_log.oldlen))
                /\ srv_pool[srv_log.slot].tag = START_WIREUP_TAG
       /\ srv_pc = "exited" => srv_log.bufFrees = 0

\* C20, witness: a slot that had been regrown completed truncated again and
\* was regrown again.
C20_Witness ==
    /\ srv_log.status = UCS_ERR_MESSAGE_TRUNCATED
    /\ srv_pc = "drive"
    /\ srv_log.bufFrees = 1
    /\ srv_log.oldlen > SizeofWireupMsg + ServerExtra

\* C21: when ucp_ep_create fails for a well-formed request, the answer is
\* abandoned: no acknowledgement send is made on the endpoint, the endpoint
\* is not closed, and run_server_once returns to the serving loop with the
\* slot of the request posted again.
C21_EpFailureAbandons ==
    (WellFormedReq(srv_log) /\ srv_log.ep = "failed")
        => /\ srv_log.sends = <<>>
           /\ srv_log.closes = <<>>
           /\ srv_pc \in {"drive", "once"}
           /\ srv_pool[srv_log.slot].st = "posted"

\* C22: fs_handler_init on an initialized handler returns S_FAIL and leaves
\* the network class and the function map as they were; fs_handler_finalize
\* on an uninitialized handler returns S_FAIL and changes nothing; a
\* fs_handler_finalize on an initialized handler leaves it uninitialized,
\* with no function map; and fs_handler_init on an uninitialized handler,
\* the first time and after a finalize alike, returns S_SUCCESS with a new
\* function map that holds no function until one is registered.
C22_InitFinalizeTwoStates ==
    /\ (lifeRet.call = "init" /\ lifeRet.was)
          => (lifeRet.ret = S_FAIL /\ lifeRet.kept /\ Initialized)
    /\ (lifeRet.call = "finalize" /\ ~lifeRet.was)
          => (lifeRet.ret = S_FAIL /\ lifeRet.kept /\ ~Initialized)
    /\ (lifeRet.call = "finalize" /\ lifeRet.was)
          => (lifeRet.ret = S_SUCCESS /\ ~Initialized /\ ~map_live)
    /\ (lifeRet.call = "init" /\ ~lifeRet.was)
          => /\ lifeRet.ret = S_SUCCESS
             /\ Initialized
             /\ map_live
             /\ DOMAIN handler_func_map = DOMAIN firstReg
    /\ Initialized <=> map_live

\* C22 witness: a function was registered and a call for it was answered, the
\* handler was then finalized, and a further fs_handler_init has succeeded:
\* the handler is initialized with an empty function map.
C22_Witness ==
    /\ lifeRet.call = "init"
    /\ lifeRet.ret = S_SUCCESS
    /\ ~lifeRet.was
    /\ Initialized
    /\ handler_func_map = <<>>
    /\ \E h \in 1..Len(handles) : Delivered(h) /\ Freed(h)

====
